---- MODULE Spec2Model ----
(***************************************************************************)
(* Session / Transaction core of the stdnet object data mapper             *)
(* (stdnet/odm/session.py): one Session, its SessionModel buckets, the     *)
(* Transaction commit pipeline and the backend responses it reconciles.    *)
(***************************************************************************)
EXTENDS Integers, Sequences, FiniteSets, TLC

\* ------------------------------------------------------------------ bounds
NInst == 2          \* instance objects 1..NInst
MaxId == 1          \* primary keys of stored rows 1..MaxId (0 stands for None)
MaxTx == 2          \* Transaction objects the session may create
MaxOps == 3         \* user calls in one behaviour
MaxQueries == 1     \* queries staged in one _delete_query

Instances == 1..NInst
Ids == 1..MaxId
TxIds == 1..MaxTx

Models == {"O", "S"}
Backends == {"B1", "B2"}

\* model of an instance object: odd objects are rows, even ones structures
ModelOf(i) == IF i % 2 = 1 THEN "O" ELSE "S"

\* Meta.model_type
model_type(m) == IF m = "S" THEN "structure" ELSE "object"

\* ------------------------------------------------------- instance state
\* locally-unique identity of an unsaved object
Token(i) == 0 - i

\* ModelState of an object the backend is not known to hold
NewState(i) == [iid |-> Token(i), persistent |-> FALSE, deleted |-> FALSE]

\* get_state(iid=..) after the stored primary key was set to pkvalue()
PkState(i, pk) ==
    IF pk = 0 THEN NewState(i)
    ELSE [iid |-> pk, persistent |-> TRUE, deleted |-> FALSE]

\* get_state(action=.., iid=state.iid) of a persistent object
KeepState(iid) == [iid |-> iid, persistent |-> TRUE, deleted |-> FALSE]

\* ------------------------------------------------- OrderedDict iid -> obj
Has(d, k) == \E n \in DOMAIN d : d[n][1] = k
Get(d, k) == IF Has(d, k) THEN d[CHOOSE n \in DOMAIN d : d[n][1] = k][2] ELSE 0
Del(d, k) == SelectSeq(d, LAMBDA e : e[1] # k)
Put(d, k, v) ==
    IF Has(d, k) THEN [n \in DOMAIN d |-> IF d[n][1] = k THEN <<k, v>> ELSE d[n]]
    ELSE Append(d, <<k, v>>)
KeysOf(d) == {d[n][1] : n \in DOMAIN d}
ValuesOf(d) == {d[n][2] : n \in DOMAIN d}
itervalues(d) == [n \in DOMAIN d |-> d[n][2]]

\* ------------------------------------------------------------ SessionModel
\* SessionModel.__init__
EmptySM == [new |-> <<>>, modified |-> <<>>, deleted |-> <<>>,
            delete_query |-> <<>>, queries |-> <<>>]

\* SessionModel.__len__
LenSM(sm) == Len(sm.new) + Len(sm.modified) + Len(sm.deleted)

\* SessionModel.__contains__ on an iid
InSM(sm, k) == Has(sm.new, k) \/ Has(sm.modified, k) \/ Has(sm.deleted, k)

\* SessionModel.pop(iid): the object removed (0 for None), the buckets left
\* behind, and whether 'Critical error: iid is duplicated' was raised
pop(sm, k) ==
    LET inN == Has(sm.new, k)
        inM == Has(sm.modified, k)
        inD == Has(sm.deleted, k)
        first == IF inN THEN Get(sm.new, k)
                 ELSE IF inM THEN Get(sm.modified, k)
                 ELSE Get(sm.deleted, k)
        raiseM == inN /\ inM /\ Get(sm.modified, k) # first
        raiseD == ~raiseM /\ inD /\ (inN \/ inM) /\ Get(sm.deleted, k) # first
    IN [sm |-> [sm EXCEPT !.new = Del(@, k),
                          !.modified = Del(@, k),
                          !.deleted = IF raiseM THEN @ ELSE Del(@, k)],
        ret |-> first,
        err |-> IF raiseM \/ raiseD THEN "ValueError" ELSE "none"]

\* the three values of the 'persistent' argument of add
PersArgs == {"None", "True", "False"}

\* add storing the object under the iid it had when add was called
SessionModel_add_stale_key(sm, inst, i, modified, persistent) ==
    LET st == inst[i]
        pers == IF persistent = "None" THEN st.persistent ELSE persistent = "True"
        state == IF ~pers THEN NewState(i)
                 ELSE IF persistent = "True" THEN PkState(i, st.pk)
                 ELSE KeepState(st.iid)
        inst2 == [inst EXCEPT ![i].iid = state.iid,
                              ![i].persistent = state.persistent,
                              ![i].deleted = state.deleted]
        popped(p) ==
            IF p.err # "none" THEN [sm |-> p.sm, inst |-> inst, ret |-> 0, err |-> p.err]
            ELSE [sm |-> IF state.persistent
                         THEN IF modified
                              THEN [p.sm EXCEPT !.modified = Put(@, st.iid, i)]
                              ELSE p.sm
                         ELSE [p.sm EXCEPT !.new = Put(@, st.iid, i)],
                  inst |-> inst2, ret |-> i, err |-> "none"]
    IN IF st.deleted THEN [sm |-> sm, inst |-> inst, ret |-> 0, err |-> "ValueError"]
       ELSE popped(pop(sm, st.iid))

\* add going on with an object whose state is deleted
SessionModel_add_deleted(sm, inst, i, modified, persistent) ==
    LET st == inst[i]
        pers == IF persistent = "None" THEN st.persistent ELSE persistent = "True"
        state == IF ~pers THEN NewState(i)
                 ELSE IF persistent = "True" THEN PkState(i, st.pk)
                 ELSE KeepState(st.iid)
        inst2 == [inst EXCEPT ![i].iid = state.iid,
                              ![i].persistent = state.persistent,
                              ![i].deleted = state.deleted]
        popped(p) ==
            IF p.err # "none" THEN [sm |-> p.sm, inst |-> inst, ret |-> 0, err |-> p.err]
            ELSE [sm |-> IF state.persistent
                         THEN IF modified
                              THEN [p.sm EXCEPT !.modified = Put(@, state.iid, i)]
                              ELSE p.sm
                         ELSE [p.sm EXCEPT !.new = Put(@, state.iid, i)],
                  inst |-> inst2, ret |-> i, err |-> "none"]
    IN popped(pop(sm, st.iid))

\* SessionModel.add(instance, modified, persistent)
SessionModel_add(sm, inst, i, modified, persistent) ==
    LET st == inst[i]
        pers == IF persistent = "None" THEN st.persistent ELSE persistent = "True"
        state == IF ~pers THEN NewState(i)
                 ELSE IF persistent = "True" THEN PkState(i, st.pk)
                 ELSE KeepState(st.iid)
        inst2 == [inst EXCEPT ![i].iid = state.iid,
                              ![i].persistent = state.persistent,
                              ![i].deleted = state.deleted]
        popped(p) ==
            IF p.err # "none" THEN [sm |-> p.sm, inst |-> inst, ret |-> 0, err |-> p.err]
            ELSE [sm |-> IF state.persistent
                         THEN IF modified
                              THEN [p.sm EXCEPT !.modified = Put(@, state.iid, i)]
                              ELSE p.sm
                         ELSE [p.sm EXCEPT !.new = Put(@, state.iid, i)],
                  inst |-> inst2, ret |-> i, err |-> "none"]
    IN IF st.deleted THEN [sm |-> sm, inst |-> inst, ret |-> 0, err |-> "ValueError"]
       ELSE popped(pop(sm, st.iid))

\* SessionStructure.add(instance, modified)
SessionStructure_add(sm, inst, i, modified) ==
    LET inst2 == [inst EXCEPT ![i].deleted = FALSE]
        k == inst[i].iid
        popped(p) ==
            IF p.err # "none" THEN [sm |-> p.sm, inst |-> inst2, ret |-> 0, err |-> p.err]
            ELSE [sm |-> [p.sm EXCEPT !.modified = Put(@, k, i)],
                  inst |-> inst2, ret |-> i, err |-> "none"]
    IN popped(IF modified THEN [sm |-> sm, ret |-> 0, err |-> "none"] ELSE pop(sm, k))

\* add of the SessionModel class Session.model creates for model m
sm_add(m, sm, inst, i, modified, persistent) ==
    IF model_type(m) = "structure"
    THEN SessionStructure_add(sm, inst, i, modified)
    ELSE SessionModel_add(sm, inst, i, modified, persistent)

\* SessionModel.delete(instance, session)
SessionModel_delete(sm, inst, i) ==
    LET popped(p) ==
            LET x == IF p.ret # 0 THEN p.ret ELSE i
                st == inst[x]
            IN IF p.err # "none" THEN [sm |-> p.sm, inst |-> inst, ret |-> 0, err |-> p.err]
               ELSE IF st.persistent
               THEN [sm |-> [p.sm EXCEPT !.deleted = Put(@, st.iid, x)],
                     inst |-> [inst EXCEPT ![x].deleted = TRUE, ![x].session = TRUE],
                     ret |-> x, err |-> "none"]
               ELSE [sm |-> p.sm, inst |-> [inst EXCEPT ![x].session = FALSE],
                     ret |-> x, err |-> "none"]
    IN popped(pop(sm, inst[i].iid))

\* SessionModel.expunge(instance): 'instance.session = None' on the popped
\* object, which is None when the object was in no bucket
SessionModel_expunge(sm, inst, i) ==
    LET popped(p) ==
            IF p.err # "none" THEN [sm |-> p.sm, inst |-> inst, ret |-> 0, err |-> p.err]
            ELSE IF p.ret = 0
            THEN [sm |-> p.sm, inst |-> inst, ret |-> 0, err |-> "AttributeError"]
            ELSE [sm |-> p.sm, inst |-> [inst EXCEPT ![p.ret].session = FALSE],
                  ret |-> p.ret, err |-> "none"]
    IN popped(pop(sm, inst[i].iid))

\* a query: a user query <<n>>, filter(id=deleted) over objects, or a
\* deleted structure standing for itself; a union is the sequence of its parts
UserQuery(n) == [kind |-> "q", of |-> <<n>>]
IdsQuery(objs) == [kind |-> "ids", of |-> objs]
InstQuery(i) == [kind |-> "inst", of |-> <<i>>]

\* get_delete_query leaving _delete_query as it is
get_delete_query_keep(m, sm) ==
    LET deleted == itervalues(sm.deleted)
        queries == IF deleted = <<>> THEN sm.delete_query
                   ELSE IF model_type(m) = "object"
                   THEN Append(sm.delete_query, IdsQuery(deleted))
                   ELSE sm.delete_query \o [n \in DOMAIN deleted |-> InstQuery(deleted[n])]
    IN [sm |-> [sm EXCEPT !.deleted = <<>>], ret |-> queries]

\* SessionModel.get_delete_query: ret is the union (<<>> for None)
get_delete_query(m, sm) ==
    LET deleted == itervalues(sm.deleted)
        queries == IF deleted = <<>> THEN sm.delete_query
                   ELSE IF model_type(m) = "object"
                   THEN Append(sm.delete_query, IdsQuery(deleted))
                   ELSE sm.delete_query \o [n \in DOMAIN deleted |-> InstQuery(deleted[n])]
    IN [sm |-> [sm EXCEPT !.deleted = <<>>,
                          !.delete_query = IF queries # <<>> THEN <<>> ELSE @],
        ret |-> queries]

\* SessionModel.iterdirty / dirty
dirty(sm) == itervalues(sm.new) \o itervalues(sm.modified)

\* 'self.meta' in post_commit: SessionModel defines _meta, not meta
SessionModel_has_meta == FALSE

\* an instance_session_result, or an Exception in its place
Result(k, id, pers, del) ==
    [kind |-> "result", iid |-> k, id |-> id, persistent |-> pers, deleted |-> del]
ErrorResult == [kind |-> "error", iid |-> 0, id |-> 0, persistent |-> FALSE, deleted |-> FALSE]

\* post_commit looking up the object only for results that are not deleted
post_commit_step_keep(m, acc, r) ==
    LET added(x, a) ==
            IF a.err # "none"
            THEN [acc EXCEPT !.sm = a.sm, !.inst = a.inst, !.err = a.err]
            ELSE [acc EXCEPT !.sm = a.sm, !.inst = a.inst,
                             !.saved = IF a.inst[x].persistent THEN Append(@, x) ELSE @]
        popped(p) ==
            IF p.err # "none" THEN [acc EXCEPT !.sm = p.sm, !.err = p.err]
            ELSE IF p.ret = 0 THEN [acc EXCEPT !.sm = p.sm, !.err = "InvalidTransaction"]
            ELSE added(p.ret,
                       sm_add(m, p.sm, [acc.inst EXCEPT ![p.ret].pk = r.id], p.ret,
                              FALSE, IF r.persistent THEN "True" ELSE "False"))
    IN IF acc.err # "none" THEN acc
       ELSE IF r.kind = "error"
       THEN IF SessionModel_has_meta
            THEN [acc EXCEPT !.errors = @ + 1]
            ELSE [acc EXCEPT !.err = "AttributeError"]
       ELSE IF r.deleted THEN [acc EXCEPT !.deleted = Append(@, r.id)]
       ELSE popped(pop(acc.sm, r.iid))

\* post_commit passing over a saved result whose iid is in no bucket
post_commit_step_lenient(m, acc, r) ==
    LET added(x, a) ==
            IF a.err # "none"
            THEN [acc EXCEPT !.sm = a.sm, !.inst = a.inst, !.err = a.err]
            ELSE [acc EXCEPT !.sm = a.sm, !.inst = a.inst,
                             !.saved = IF a.inst[x].persistent THEN Append(@, x) ELSE @]
        popped(p) ==
            IF p.err # "none" THEN [acc EXCEPT !.sm = p.sm, !.err = p.err]
            ELSE IF r.deleted THEN [acc EXCEPT !.sm = p.sm, !.deleted = Append(@, r.id)]
            ELSE IF p.ret = 0 THEN [acc EXCEPT !.sm = p.sm]
            ELSE added(p.ret,
                       sm_add(m, p.sm, [acc.inst EXCEPT ![p.ret].pk = r.id], p.ret,
                              FALSE, IF r.persistent THEN "True" ELSE "False"))
    IN IF acc.err # "none" THEN acc
       ELSE IF r.kind = "error"
       THEN IF SessionModel_has_meta
            THEN [acc EXCEPT !.errors = @ + 1]
            ELSE [acc EXCEPT !.err = "AttributeError"]
       ELSE popped(pop(acc.sm, r.iid))

\* one iteration of the loop of SessionModel.post_commit
post_commit_step(m, acc, r) ==
    LET added(x, a) ==
            IF a.err # "none"
            THEN [acc EXCEPT !.sm = a.sm, !.inst = a.inst, !.err = a.err]
            ELSE [acc EXCEPT !.sm = a.sm, !.inst = a.inst,
                             !.saved = IF a.inst[x].persistent THEN Append(@, x) ELSE @]
        popped(p) ==
            IF p.err # "none" THEN [acc EXCEPT !.sm = p.sm, !.err = p.err]
            ELSE IF r.deleted THEN [acc EXCEPT !.sm = p.sm, !.deleted = Append(@, r.id)]
            ELSE IF p.ret = 0 THEN [acc EXCEPT !.sm = p.sm, !.err = "InvalidTransaction"]
            ELSE added(p.ret,
                       sm_add(m, p.sm, [acc.inst EXCEPT ![p.ret].pk = r.id], p.ret,
                              FALSE, IF r.persistent THEN "True" ELSE "False"))
    IN IF acc.err # "none" THEN acc
       ELSE IF r.kind = "error"
       THEN IF SessionModel_has_meta
            THEN [acc EXCEPT !.errors = @ + 1]
            ELSE [acc EXCEPT !.err = "AttributeError"]
       ELSE popped(pop(acc.sm, r.iid))

RECURSIVE post_commit_loop(_, _, _, _)
post_commit_loop(m, acc, results, n) ==
    IF n > Len(results) THEN acc
    ELSE post_commit_loop(m, post_commit_step(m, acc, results[n]), results, n + 1)

\* SessionModel.post_commit(results): saved, deleted, number of errors and
\* the exception that left the method, if any
post_commit(m, sm, inst, results) ==
    post_commit_loop(m, [sm |-> sm, inst |-> inst, saved |-> <<>>, deleted |-> <<>>,
                         errors |-> 0, err |-> "none"], results, 1)

\* ---------------------------------------------------------------- state
VARIABLES
    inst,         \* instance objects: pk attribute, state, session link
    order,        \* Session._models: the models with a SessionModel, in order
    sms,          \* Session._models: the SessionModel of each model
    transaction,  \* Session.transaction (0 for None)
    tx,           \* the Transaction objects created so far
    ntx,          \* number of Transaction objects created
    backendOf,    \* Manager.backend of each model (router configuration)
    call,         \* the last user call
    err,          \* exception raised by the last user call ("none" if none)
    ops           \* number of user calls made

vars == <<inst, order, sms, transaction, tx, ntx, backendOf, call, err, ops>>

\* a user call: the method, the object or transaction it is about, and the
\* arguments of add
Call(op, arg, modified, persistent) ==
    [op |-> op, arg |-> arg, modified |-> modified, persistent |-> persistent]
Call1(op, arg) == Call(op, arg, FALSE, "None")

\* Manager.__init__(model, backend, read_backend); "None" when no read
\* backend is given
Manager(backend, rbe) == [backend |-> backend, read_backend |-> rbe]

\* the managers of the router: rows are kept on one server, structures on
\* another, and neither has a read backend
Router == [m \in Models |-> Manager(IF m = "O" THEN "B1" ELSE "B2", "None")]

\* Manager.backend
backend(m) == backendOf[m].backend

\* Manager.read_backend: self._read_backend or self._backend
read_backend(m) ==
    IF backendOf[m].read_backend # "None" THEN backendOf[m].read_backend
    ELSE backendOf[m].backend

\* Transaction.__init__(session, signal_commit, signal_delete); pc is where
\* the _commit coroutine stands, events the signals sent and backend calls
\* made by the commit in progress, at the number of the user call that ran
\* commit (0 before it), dominated the object whose add and delete were the
\* two calls before commit (0 if there is none), in_with that commit was
\* called by __exit__
Transaction(signal_commit, signal_delete) ==
    [session |-> TRUE, finished |-> FALSE, pc |-> "none",
     signal_commit |-> signal_commit, signal_delete |-> signal_delete,
     calls |-> <<>>, got |-> {}, next |-> 1,
     saved |-> [m \in Models |-> <<>>], deleted |-> [m \in Models |-> <<>>],
     outcome |-> <<>>, events |-> <<>>, at |-> 0, dominated |-> 0, in_with |-> FALSE]

\* Transaction(session) with the default options
NewTx == Transaction(TRUE, TRUE)

\* a signal sent for a model, or a call of backend.execute_session
Event(name, of) == [name |-> name, of |-> of]

\* executed taken for finished
executed_finished(t) == tx[t].finished

\* Transaction.executed
executed(t) == ~tx[t].session

\* Session.__len__
LenSession == Len(order)

\* Session.model(model): the bucket is created on demand
WithModel(ord, m) == IF \E n \in DOMAIN ord : ord[n] = m THEN ord ELSE Append(ord, m)

\* session_data(meta, dirty, deletes, queries); a dirty entry keeps the iid
\* and primary key the backend is handed
session_data(m, d, deletes, queries, ins) ==
    [meta |-> m,
     dirty |-> [n \in DOMAIN d |-> <<ins[d[n]].iid, d[n], ins[d[n]].pk>>],
     deletes |-> deletes, queries |-> queries]

\* backends_data yielding without looking at what there is to send
backends_data_unguarded(m, sm, ins) ==
    IF backend(m) = read_backend(m)
    THEN << [be |-> backend(m),
             data |-> session_data(m, dirty(sm), get_delete_query(m, sm).ret,
                                   sm.queries, ins)] >>
    ELSE << [be |-> backend(m),
             data |-> session_data(m, dirty(sm), get_delete_query(m, sm).ret, <<>>, ins)],
            [be |-> read_backend(m),
             data |-> session_data(m, <<>>, <<>>, sm.queries, ins)] >>

\* backends_data sending the one combined payload to the read backend
backends_data_unsplit(m, sm, ins) ==
    IF dirty(sm) = <<>> /\ get_delete_query(m, sm).ret = <<>> /\ sm.queries = <<>>
    THEN <<>>
    ELSE << [be |-> read_backend(m),
             data |-> session_data(m, dirty(sm), get_delete_query(m, sm).ret,
                                   sm.queries, ins)] >>

\* SessionModel.backends_data: the (backend, payload) pairs it yields
backends_data(m, sm, ins) ==
    LET be == backend(m)
        rbe == read_backend(m)
        d == dirty(sm)
        deletes == get_delete_query(m, sm).ret
        queries == sm.queries
    IN IF d = <<>> /\ deletes = <<>> /\ queries = <<>> THEN <<>>
       ELSE IF be = rbe
       THEN << [be |-> be, data |-> session_data(m, d, deletes, queries, ins)] >>
       ELSE (IF d # <<>> \/ deletes # <<>>
             THEN << [be |-> be, data |-> session_data(m, d, deletes, <<>>, ins)] >>
             ELSE <<>>)
            \o
            (IF queries # <<>>
             THEN << [be |-> rbe, data |-> session_data(m, <<>>, <<>>, queries, ins)] >>
             ELSE <<>>)

\* all pairs yielded over the SessionModels of the session, in order
RECURSIVE all_backends_data(_, _, _, _)
all_backends_data(ord, s, ins, n) ==
    IF n > Len(ord) THEN <<>>
    ELSE backends_data(ord[n], s[ord[n]], ins) \o all_backends_data(ord, s, ins, n + 1)

\* backends_data with one entry for every payload yielded
Session_backends_data_ungrouped(ord, s, ins) ==
    LET each(pairs) == [n \in DOMAIN pairs |-> [be |-> pairs[n].be, data |-> << pairs[n].data >>]]
    IN each(all_backends_data(ord, s, ins, 1))

\* Session.backends_data: payloads grouped by backend
Session_backends_data(ord, s, ins) ==
    LET grouped(pairs) ==
            LET firstOf(b) == CHOOSE n \in DOMAIN pairs :
                                pairs[n].be = b /\ \A k \in 1..(n - 1) : pairs[k].be # b
                bes == {pairs[n].be : n \in DOMAIN pairs}
                rank(b) == Cardinality({c \in bes : firstOf(c) <= firstOf(b)})
                ofBe(b) == SelectSeq(pairs, LAMBDA p : p.be = b)
            IN [r \in 1..Cardinality(bes) |->
                  LET b == CHOOSE c \in bes : rank(c) = r
                  IN [be |-> b, data |-> [n \in DOMAIN ofBe(b) |-> ofBe(b)[n].data]]]
    IN grouped(all_backends_data(ord, s, ins, 1))

\* the pre signals sent whatever the options of the transaction
pre_signals_unconditional(m, sm, rec) ==
    (IF get_delete_query(m, sm).ret # <<>> THEN << Event("pre_delete", m) >> ELSE <<>>)
    \o (IF dirty(sm) # <<>> THEN << Event("pre_commit", m) >> ELSE <<>>)

\* SessionModel.backends_data: the signals it sends before it yields
pre_signals(m, sm, rec) ==
    LET d == dirty(sm)
        deletes == get_delete_query(m, sm).ret
        queries == sm.queries
    IN IF d = <<>> /\ deletes = <<>> /\ queries = <<>> THEN <<>>
       ELSE (IF rec.signal_delete /\ deletes # <<>>
             THEN << Event("pre_delete", m) >> ELSE <<>>)
            \o
            (IF d # <<>> /\ rec.signal_commit
             THEN << Event("pre_commit", m) >> ELSE <<>>)

\* the signals sent while Session.backends_data runs over the SessionModels
RECURSIVE all_pre_signals(_, _, _, _)
all_pre_signals(ord, s, rec, n) ==
    IF n > Len(ord) THEN <<>>
    ELSE pre_signals(ord[n], s[ord[n]], rec) \o all_pre_signals(ord, s, rec, n + 1)

\* Transaction._commit: session.backends_data(self) is run to its end, then
\* execute_session is called on each backend
commit_events(rec, ord, s, calls) ==
    all_pre_signals(ord, s, rec, 1)
    \o [n \in DOMAIN calls |-> Event("execute_session", calls[n].be)]

\* the buckets after every SessionModel ran get_delete_query
AfterDeleteQueries(ord, s) ==
    [m \in Models |-> IF \E n \in DOMAIN ord : ord[n] = m
                      THEN get_delete_query(m, s[m]).sm ELSE s[m]]

\* Transaction._commit up to its first suspension: the transaction record,
\* the buckets and Session.transaction it leaves
_commit(t, rec, ord, s, ins, cur) ==
    LET dominated == IF /\ cur = t /\ call.op = "delete" /\ err = "none"
                           /\ call.arg \in Instances
                        THEN IF ins[call.arg].after_add THEN call.arg ELSE 0
                        ELSE 0
        executing(calls) ==
            [tx |-> IF calls = <<>>
                    THEN [rec EXCEPT !.session = FALSE, !.pc = "done", !.at = ops + 1,
                                     !.dominated = dominated]
                    ELSE [rec EXCEPT !.session = FALSE, !.pc = "await", !.calls = calls,
                                     !.at = ops + 1, !.dominated = dominated,
                                     !.events = commit_events(rec, ord, s, calls)],
             sms |-> AfterDeleteQueries(ord, s),
             transaction |-> IF calls = <<>> THEN 0 ELSE cur]
    IN executing(Session_backends_data(ord, s, ins))

TypeOK ==
    /\ transaction \in 0..MaxTx
    /\ ntx \in 0..MaxTx
    /\ ops \in 0..MaxOps
    /\ \A i \in Instances : inst[i].pk \in 0..(MaxId + NInst) /\ inst[i].session \in BOOLEAN

\* an object as user code holds it before it meets the session: built and
\* never saved (no primary key), or loaded from its backend; after_add notes
\* that the last delete(instance) came right after add(instance) under the
\* transaction then open
InitInst(i) ==
    {[pk |-> 0, iid |-> Token(i), persistent |-> FALSE,
      deleted |-> FALSE, session |-> FALSE, after_add |-> FALSE]}
    \cup {[pk |-> pk, iid |-> pk, persistent |-> TRUE,
           deleted |-> FALSE, session |-> FALSE, after_add |-> FALSE] : pk \in Ids}

Init ==
    /\ inst \in {f \in [Instances -> UNION {InitInst(i) : i \in Instances}] :
                   \A i \in Instances : f[i] \in InitInst(i)}
    /\ order = <<>>
    /\ sms = [m \in Models |-> EmptySM]
    /\ transaction = 0
    /\ tx = [t \in TxIds |-> NewTx]
    /\ ntx = 0
    /\ backendOf = Router
    /\ call = Call1("none", 0)
    /\ err = "none"
    /\ ops = 0

\* user code runs between the steps of a commit only where _commit awaits
UserTurn == ops < MaxOps /\ \A t \in TxIds : tx[t].pc # "post"

\* begin without the check for a transaction already begun
Session_begin_unchecked(signal_commit, signal_delete) ==
    /\ UserTurn
    /\ ops' = ops + 1
    /\ call' = Call1("begin", 0)
    /\ ntx < MaxTx
    /\ ntx' = ntx + 1
    /\ transaction' = ntx + 1
    /\ tx' = [tx EXCEPT ![ntx + 1] = Transaction(signal_commit, signal_delete)]
    /\ err' = "none"
    /\ UNCHANGED <<inst, order, sms, backendOf>>

\* Session.begin(**options)
Session_begin(signal_commit, signal_delete) ==
    /\ UserTurn
    /\ ops' = ops + 1
    /\ call' = Call1("begin", 0)
    /\ IF transaction # 0
       THEN /\ err' = "InvalidTransaction"
            /\ UNCHANGED <<transaction, tx, ntx>>
       ELSE /\ ntx < MaxTx
            /\ ntx' = ntx + 1
            /\ transaction' = ntx + 1
            /\ tx' = [tx EXCEPT ![ntx + 1] = Transaction(signal_commit, signal_delete)]
            /\ err' = "none"
    /\ UNCHANGED <<inst, order, sms, backendOf>>

\* Session.commit reached from add / delete when no transaction is active:
\* begin() and Transaction.commit() on the buckets s
ImplicitCommit(ord, s, ins) ==
    LET t == ntx + 1
        committed(c) ==
            /\ ntx' = t
            /\ tx' = [tx EXCEPT ![t] = c.tx]
            /\ sms' = c.sms
            /\ transaction' = c.transaction
    IN /\ ntx < MaxTx
       /\ committed(_commit(t, NewTx, ord, s, ins, t))

\* Session.add(instance, modified, persistent)
Session_add(i, modified, persistent) ==
    LET m == ModelOf(i)
        ord == WithModel(order, m)
        ins == [inst EXCEPT ![i].session = TRUE]
        added(a) ==
            /\ inst' = a.inst
            /\ err' = a.err
            /\ IF a.err = "none" /\ modified /\ transaction = 0
               THEN ImplicitCommit(ord, [sms EXCEPT ![m] = a.sm], a.inst)
               ELSE sms' = [sms EXCEPT ![m] = a.sm] /\ UNCHANGED <<transaction, tx, ntx>>
    IN /\ UserTurn
       /\ ops' = ops + 1
       /\ call' = Call("add", i, modified, persistent)
       /\ order' = ord
       /\ added(sm_add(m, sms[m], ins, i, modified, persistent))
       /\ UNCHANGED backendOf

\* delete committing whether or not a transaction is active
CommitIfNoTransaction_always(ord, s, ins) == ImplicitCommit(ord, s, ins)

\* Session.commit reached from delete when no transaction is active, or the
\* plain return when one is
CommitIfNoTransaction(ord, s, ins) ==
    IF transaction = 0
    THEN ImplicitCommit(ord, s, ins)
    ELSE sms' = s /\ UNCHANGED <<transaction, tx, ntx>>

\* Session.delete(instance)
Session_delete(i) ==
    LET m == ModelOf(i)
        ord == WithModel(order, m)
        afterAdd == /\ call = Call("add", i, TRUE, "None") /\ err = "none"
                    /\ transaction # 0
                    /\ tx[transaction].session /\ tx[transaction].pc = "none"
        deleted(d) ==
            /\ inst' = [d.inst EXCEPT ![i].after_add = afterAdd]
            /\ err' = d.err
            /\ IF d.err = "none"
               THEN CommitIfNoTransaction(ord, [sms EXCEPT ![m] = d.sm], d.inst)
               ELSE sms' = [sms EXCEPT ![m] = d.sm] /\ UNCHANGED <<transaction, tx, ntx>>
    IN /\ UserTurn
       /\ ops' = ops + 1
       /\ call' = Call1("delete", i)
       /\ order' = ord
       /\ deleted(SessionModel_delete(sms[m], inst, i))
       /\ UNCHANGED backendOf

\* delete(query) without the test of the session of the query
Session_delete_query_unchecked(m, foreign) ==
    /\ UserTurn
    /\ ops' = ops + 1
    /\ call' = Call1(IF foreign THEN "delete_foreign_query" ELSE "delete_query", 0)
    /\ order' = WithModel(order, m)
    /\ Len(sms[m].delete_query) < MaxQueries
    /\ err' = "none"
    /\ CommitIfNoTransaction(WithModel(order, m),
                             [sms EXCEPT ![m].delete_query = Append(@, UserQuery(1))], inst)
    /\ UNCHANGED <<inst, backendOf>>

\* Session.delete(query): foreign says the query was made by another session
Session_delete_query(m, foreign) ==
    LET ord == WithModel(order, m)
        s == [sms EXCEPT ![m].delete_query = Append(@, UserQuery(1))]
    IN /\ UserTurn
       /\ ops' = ops + 1
       /\ call' = Call1(IF foreign THEN "delete_foreign_query" ELSE "delete_query", 0)
       /\ order' = ord
       /\ IF foreign
          THEN /\ err' = "ValueError"
               /\ UNCHANGED <<sms, transaction, tx, ntx>>
          ELSE /\ Len(sms[m].delete_query) < MaxQueries
               /\ err' = "none"
               /\ CommitIfNoTransaction(ord, s, inst)
       /\ UNCHANGED <<inst, backendOf>>

\* Session.expunge(instance)
Session_expunge(i) ==
    LET m == ModelOf(i)
        found == \E n \in DOMAIN order : order[n] = m
        expunged(e) ==
            /\ sms' = [sms EXCEPT ![m] = e.sm]
            /\ inst' = e.inst
            /\ err' = e.err
    IN /\ UserTurn
       /\ ops' = ops + 1
       /\ call' = Call1("expunge", i)
       /\ IF found /\ LenSM(sms[m]) > 0
          THEN expunged(SessionModel_expunge(sms[m], inst, i))
          ELSE /\ err' = "none"
               /\ UNCHANGED <<sms, inst>>
       /\ UNCHANGED <<order, transaction, tx, ntx, backendOf>>

\* Session.expunge(): self._models.clear()
Session_expunge_all ==
    /\ UserTurn
    /\ ops' = ops + 1
    /\ call' = Call1("expunge_all", 0)
    /\ order' = <<>>
    /\ sms' = [m \in Models |-> EmptySM]
    /\ err' = "none"
    /\ UNCHANGED <<inst, transaction, tx, ntx, backendOf>>

\* Transaction.commit on any Transaction object the user holds
Transaction_commit(t) ==
    LET committed(c) ==
            /\ tx' = [tx EXCEPT ![t] = c.tx]
            /\ sms' = c.sms
            /\ transaction' = c.transaction
    IN /\ UserTurn
       /\ t <= ntx
       /\ ops' = ops + 1
       /\ call' = Call1("tx_commit", t)
       /\ IF executed(t)
          THEN /\ err' = "InvalidTransaction"
               /\ UNCHANGED <<sms, transaction, tx>>
          ELSE /\ err' = "none"
               /\ committed(_commit(t, tx[t], order, sms, inst, transaction))
       /\ UNCHANGED <<inst, order, ntx, backendOf>>

\* Transaction.rollback: what it leaves of Session._models,
\* Session.transaction and Transaction.session
rollback(t) ==
    IF tx[t].session /\ LenSession > 0
    THEN [order |-> <<>>, sms |-> [m \in Models |-> EmptySM], transaction |-> 0,
          session |-> FALSE]
    ELSE [order |-> order, sms |-> sms, transaction |-> transaction,
          session |-> tx[t].session]

\* Transaction.__exit__(None, None, None), the end of a with block that
\* raised nothing: commit(), and rollback() if commit raises
Transaction_exit(t) ==
    LET committed(c) ==
            /\ tx' = [tx EXCEPT ![t] = c.tx]
            /\ sms' = c.sms
            /\ transaction' = c.transaction
            /\ order' = order
        rolled(rb) ==
            /\ tx' = [tx EXCEPT ![t].session = rb.session]
            /\ sms' = rb.sms
            /\ transaction' = rb.transaction
            /\ order' = rb.order
    IN /\ UserTurn
       /\ t <= ntx
       /\ ops' = ops + 1
       /\ call' = Call1("exit", t)
       /\ IF executed(t)
          THEN /\ err' = "InvalidTransaction"
               /\ rolled(rollback(t))
          ELSE /\ err' = "none"
               /\ committed(_commit(t, [tx[t] EXCEPT !.in_with = TRUE],
                                    order, sms, inst, transaction))
       /\ UNCHANGED <<inst, ntx, backendOf>>

\* Session.commit with no transaction active: begin() then commit()
Session_commit ==
    /\ UserTurn
    /\ transaction = 0
    /\ ops' = ops + 1
    /\ call' = Call1("commit", 0)
    /\ err' = "none"
    /\ ImplicitCommit(order, sms, inst)
    /\ UNCHANGED <<inst, order, backendOf>>

\* Transaction.rollback: 'if self.session' is Session.__len__ of the session
Transaction_rollback(t) ==
    /\ UserTurn
    /\ t <= ntx
    /\ ops' = ops + 1
    /\ call' = Call1("rollback", t)
    /\ err' = "none"
    /\ IF tx[t].session /\ LenSession > 0
       THEN /\ order' = <<>>
            /\ sms' = [m \in Models |-> EmptySM]
            /\ transaction' = 0
            /\ tx' = [tx EXCEPT ![t].session = FALSE]
       ELSE UNCHANGED <<order, sms, transaction, tx>>
    /\ UNCHANGED <<inst, ntx, backendOf>>

\* ------------------------------------------------------- backend answers
\* an element of a response: session_result(meta, results) or an Exception
ModelResult(m, results) == [kind |-> "res", meta |-> m, results |-> results]
ModelError == [kind |-> "exc", meta |-> "none", results |-> <<>>]

\* the key a backend generates for object i when it is handed none
AssignedId(i) == MaxId + i

\* what a backend may report for one dirty entry <<iid, object, pk>>: the
\* key it was given or the one it generates, stored or not, or an error
DirtyOutcomes(e) ==
    LET id == IF e[3] # 0 THEN e[3] ELSE AssignedId(e[2])
    IN {ErrorResult} \cup {Result(e[1], id, p, FALSE) : p \in BOOLEAN}

\* the elements of a finite set of integers, ascending
SortedSeq(S) ==
    [n \in 1..Cardinality(S) |-> CHOOSE x \in S : Cardinality({y \in S : y <= x}) = n]

\* ids one part of a delete query removes: the keys of the deleted objects,
\* any rows for a user query
DeletedIds(q, ins) ==
    IF q.kind = "q" THEN {SortedSeq(S) : S \in {{}, Ids}}
    ELSE {[n \in DOMAIN q.of |-> ins[q.of[n]].pk]}

RECURSIVE DeletedIdSeqs(_, _, _)
DeletedIdSeqs(deletes, ins, n) ==
    IF n > Len(deletes) THEN {<<>>}
    ELSE {a \o b : a \in DeletedIds(deletes[n], ins),
                   b \in DeletedIdSeqs(deletes, ins, n + 1)}

\* results a backend may return for one payload
PayloadResults(p, ins) ==
    LET saves == {f \in [DOMAIN p.dirty -> UNION {DirtyOutcomes(p.dirty[n]) : n \in DOMAIN p.dirty}] :
                    \A n \in DOMAIN p.dirty : f[n] \in DirtyOutcomes(p.dirty[n])}
        dels == {[n \in DOMAIN ks |-> Result(ks[n], ks[n], FALSE, TRUE)] :
                    ks \in DeletedIdSeqs(p.deletes, ins, 1)}
    IN {ModelError} \cup {ModelResult(p.meta, a \o b) : a \in saves, b \in dels}

\* responses a backend may give to execute_session(data)
Responses(data, ins) ==
    {f \in [DOMAIN data -> UNION {PayloadResults(data[n], ins) : n \in DOMAIN data}] :
        \A n \in DOMAIN data : f[n] \in PayloadResults(data[n], ins)}

\* the composite of multi_async joins all its tasks: every response is
\* handed to _post_commit, also after one of them raised
multi_async_runs_all == TRUE

\* the response of call n of transaction t arrives (its content is read in
\* _post_commit); with the last one _commit resumes at 'if resp'
Respond(t, n) ==
    /\ tx[t].pc = "await"
    /\ n \in DOMAIN tx[t].calls
    /\ n \notin tx[t].got
    /\ tx' = [tx EXCEPT ![t].got = @ \cup {n},
                        ![t].pc = IF tx[t].got \cup {n} = DOMAIN tx[t].calls
                                  THEN "post" ELSE "await"]
    /\ UNCHANGED <<inst, order, sms, transaction, ntx, backendOf, call, err, ops>>

\* Exceptions standing in place of a model's results in a response
ModelErrorsIn(response) == Len(SelectSeq(response, LAMBDA r : r.kind = "exc"))

\* results of a response that report an object as not stored
RECURSIVE UnstoredIn(_, _)
UnstoredIn(response, n) ==
    IF n > Len(response) THEN 0
    ELSE Len(SelectSeq(response[n].results,
                       LAMBDA r : r.kind = "result" /\ ~r.deleted /\ ~r.persistent))
         + UnstoredIn(response, n + 1)

\* the (iid, id) of the results of a response that report an object as stored
StoredIn(response) ==
    UNION {{<<response[n].results[k].iid, response[n].results[k].id>> :
              k \in {j \in DOMAIN response[n].results :
                       /\ response[n].results[j].kind = "result"
                       /\ ~response[n].results[j].deleted
                       /\ response[n].results[j].persistent}} :
           n \in DOMAIN response}

\* Exceptions among the per-instance results of the models of a response
RECURSIVE InstanceErrorsIn(_, _)
InstanceErrorsIn(response, n) ==
    IF n > Len(response) THEN 0
    ELSE Len(SelectSeq(response[n].results, LAMBDA r : r.kind = "error"))
         + InstanceErrorsIn(response, n + 1)

\* one iteration of the loop over a response in Transaction._post_commit
_post_commit_step(rec, acc, result) ==
    LET m == result.meta
        posted(pc) ==
            IF pc.err # "none"
            THEN [acc EXCEPT !.order = WithModel(@, m), !.sms[m] = pc.sm,
                             !.inst = pc.inst, !.err = pc.err]
            ELSE [acc EXCEPT !.order = WithModel(@, m), !.sms[m] = pc.sm,
                             !.inst = pc.inst,
                             !.exceptions = @ + pc.errors,
                             !.deleted[m] = IF pc.deleted # <<>> THEN pc.deleted ELSE @,
                             !.saved[m] = IF pc.saved # <<>> THEN pc.saved ELSE @,
                             !.signals = @
                                \o (IF pc.deleted # <<>> /\ rec.signal_delete
                                    THEN << Event("post_delete", m) >> ELSE <<>>)
                                \o (IF pc.saved # <<>> /\ rec.signal_commit
                                    THEN << Event("post_commit", m) >> ELSE <<>>)]
    IN IF acc.err # "none" THEN acc
       ELSE IF result.kind = "exc" THEN [acc EXCEPT !.exceptions = @ + 1]
       ELSE IF result.results = <<>> THEN acc
       ELSE posted(post_commit(m, acc.sms[m], acc.inst, result.results))

RECURSIVE _post_commit_loop(_, _, _, _)
_post_commit_loop(rec, acc, response, n) ==
    IF n > Len(response) THEN acc
    ELSE _post_commit_loop(rec, _post_commit_step(rec, acc, response[n]), response, n + 1)

\* the message of the CommitException _post_commit raises for n failures
CommitMessage(n) == IF n > 1 THEN "There were n exceptions during commit." ELSE "str(e)"

\* Transaction._post_commit(session, response) for the next response
_post_commit_of(t, response) ==
    LET raised(acc) ==
            IF acc.err # "none"
            THEN [type |-> acc.err, failures |-> 0, message |-> "other"]
            ELSE IF acc.exceptions > 0
            THEN [type |-> "CommitException", failures |-> acc.exceptions,
                  message |-> CommitMessage(acc.exceptions)]
            ELSE [type |-> "none", failures |-> 0, message |-> "none"]
        looped(acc, exc) ==
            /\ order' = acc.order
            /\ sms' = acc.sms
            /\ inst' = acc.inst
            /\ tx' = [tx EXCEPT ![t].saved = acc.saved,
                                ![t].deleted = acc.deleted,
                                ![t].finished = IF acc.err = "none" THEN TRUE ELSE @,
                                ![t].outcome = Append(@,
                                    [model_errors |-> ModelErrorsIn(response),
                                     instance_errors |-> InstanceErrorsIn(response, 1),
                                     unstored |-> UnstoredIn(response, 1),
                                     stored |-> StoredIn(response),
                                     response |-> response,
                                     raised |-> exc]),
                                ![t].events = IF acc.err = "none" THEN @ \o acc.signals
                                              ELSE @,
                                ![t].next = IF exc.type = "none" \/ multi_async_runs_all
                                            THEN @ + 1 ELSE Len(tx[t].calls) + 1]
        run(acc) == looped(acc, raised(acc))
    IN /\ run(_post_commit_loop(tx[t],
                                [order |-> order, sms |-> sms, inst |-> inst,
                                 saved |-> tx[t].saved, deleted |-> tx[t].deleted,
                                 signals |-> <<>>, exceptions |-> 0, err |-> "none"],
                                response, 1))
       /\ UNCHANGED <<transaction, ntx, backendOf, call, err, ops>>

\* _commit hands the next response to _post_commit
_post_commit(t) ==
    /\ tx[t].pc = "post"
    /\ tx[t].next <= Len(tx[t].calls)
    /\ \E r \in Responses(tx[t].calls[tx[t].next].data, inst) : _post_commit_of(t, r)

\* Transaction._commit after the composite of _post_commit resolved:
\* 'session.transaction = None' unless the composite raised; the exception
\* leaves commit(), where __exit__ catches it to call rollback()
_commit_resume(t) ==
    /\ tx[t].pc = "post"
    /\ tx[t].next > Len(tx[t].calls)
    /\ IF \A k \in DOMAIN tx[t].outcome : tx[t].outcome[k].raised.type = "none"
       THEN /\ transaction' = 0
            /\ tx' = [tx EXCEPT ![t].pc = "done", ![t].calls = <<>>,
                                ![t].got = {}, ![t].next = 1, ![t].events = <<>>]
            /\ UNCHANGED <<order, sms>>
       ELSE LET rolled(rb) ==
                   /\ tx' = [tx EXCEPT ![t].pc = "raised", ![t].calls = <<>>,
                                       ![t].got = {}, ![t].next = 1, ![t].events = <<>>,
                                       ![t].session = rb.session]
                   /\ transaction' = rb.transaction
                   /\ order' = rb.order
                   /\ sms' = rb.sms
            IN IF tx[t].in_with
               THEN rolled(rollback(t))
               ELSE rolled([order |-> order, sms |-> sms, transaction |-> transaction,
                            session |-> tx[t].session])
    /\ UNCHANGED <<inst, ntx, backendOf, call, err, ops>>

Next ==
    \/ Session_begin(TRUE, TRUE)
    \/ \E i \in Instances, modified \in BOOLEAN, persistent \in PersArgs :
         Session_add(i, modified, persistent)
    \/ \E i \in Instances : Session_delete(i)
    \/ \E m \in Models, foreign \in BOOLEAN : Session_delete_query(m, foreign)
    \/ \E i \in Instances : Session_expunge(i)
    \/ Session_expunge_all
    \/ Session_commit
    \/ \E t \in TxIds : Transaction_commit(t)
    \/ \E t \in TxIds : Transaction_exit(t)
    \/ \E t \in TxIds : Transaction_rollback(t)
    \/ \E t \in TxIds, n \in 1..(2 * Cardinality(Models)) : Respond(t, n)
    \/ \E t \in TxIds : _post_commit(t)
    \/ \E t \in TxIds : _commit_resume(t)

Spec == Init /\ [][Next]_vars

\* ------------------------------------------- what a commit hands to backends
\* the routers: each model keeps its write backend and has no read backend,
\* the same one, or the other server
Routers ==
    {f \in [Models -> {Manager(w, r) : w \in Backends, r \in Backends \cup {"None"}}] :
        \A m \in Models : f[m].backend = Router[m].backend}

\* the objects user code holds there: one more, so that a SessionModel may
\* hold two objects
DataInstances == 1..(NInst + 1)

\* a session of any of the routers, nothing staged
InitData ==
    /\ inst \in {f \in [DataInstances -> UNION {InitInst(i) : i \in DataInstances}] :
                   \A i \in DataInstances : f[i] \in InitInst(i)}
    /\ order = <<>>
    /\ sms = [m \in Models |-> EmptySM]
    /\ transaction = 0
    /\ tx = [t \in TxIds |-> NewTx]
    /\ ntx = 0
    /\ backendOf \in Routers
    /\ call = Call1("none", 0)
    /\ err = "none"
    /\ ops = 0

\* a read-only query of model m is registered for dispatch in _queries
queries_append(m) ==
    /\ UserTurn
    /\ Len(sms[m].queries) < MaxQueries
    /\ ops' = ops + 1
    /\ call' = Call1("query", 0)
    /\ order' = WithModel(order, m)
    /\ sms' = [sms EXCEPT ![m].queries = Append(@, UserQuery(2))]
    /\ err' = "none"
    /\ UNCHANGED <<inst, transaction, tx, ntx, backendOf>>

\* staging and commit, up to the calls of execute_session
NextData ==
    \/ \E signal_commit \in BOOLEAN, signal_delete \in BOOLEAN :
         Session_begin(signal_commit, signal_delete)
    \/ \E i \in DataInstances, modified \in BOOLEAN : Session_add(i, modified, "None")
    \/ \E i \in DataInstances : Session_delete(i)
    \/ \E i \in DataInstances : Session_expunge(i)
    \/ \E m \in Models : Session_delete_query(m, FALSE)
    \/ \E m \in Models : queries_append(m)
    \/ Session_commit
    \/ \E t \in TxIds : Transaction_commit(t)

SpecData == InitData /\ [][NextData]_vars

\* ------------------------------------------------ a transaction just begun
\* the session right after session.begin(): one Open transaction, nothing
\* staged
InitBegun ==
    /\ inst \in {f \in [Instances -> UNION {InitInst(i) : i \in Instances}] :
                   \A i \in Instances : f[i] \in InitInst(i)}
    /\ order = <<>>
    /\ sms = [m \in Models |-> EmptySM]
    /\ transaction = 1
    /\ tx = [t \in TxIds |-> NewTx]
    /\ ntx = 1
    /\ backendOf = Router
    /\ call = Call1("begin", 0)
    /\ err = "none"
    /\ ops = 0

SpecBegun == InitBegun /\ [][Next]_vars

\* --------------------------------------- two objects of one stored entity
\* the objects user code holds there: two rows and two structures, so that
\* two objects of one model may carry the same primary key
PopInstances == 1..(NInst + 2)

\* the session right after session.begin(), nothing staged
InitPop ==
    /\ inst \in {f \in [PopInstances -> UNION {InitInst(i) : i \in PopInstances}] :
                   \A i \in PopInstances : f[i] \in InitInst(i)}
    /\ order = <<>>
    /\ sms = [m \in Models |-> EmptySM]
    /\ transaction = 1
    /\ tx = [t \in TxIds |-> NewTx]
    /\ ntx = 1
    /\ backendOf = Router
    /\ call = Call1("begin", 0)
    /\ err = "none"
    /\ ops = 0

\* staging, commit and the handling of the responses
NextPop ==
    \/ \E i \in PopInstances, modified \in BOOLEAN, persistent \in PersArgs :
         Session_add(i, modified, persistent)
    \/ \E i \in PopInstances : Session_delete(i)
    \/ \E i \in PopInstances : Session_expunge(i)
    \/ \E t \in TxIds : Transaction_commit(t)
    \/ \E t \in TxIds, n \in 1..(2 * Cardinality(Models)) : Respond(t, n)
    \/ \E t \in TxIds : _post_commit(t)
    \/ \E t \in TxIds : _commit_resume(t)

SpecPop == InitPop /\ [][NextPop]_vars

\* ------------------------------------------------------------ properties
\* a step that is the user call c
UserCall(c) == ops' = ops + 1 /\ call' = c

\* the objects held by the buckets of a SessionModel
Bucketed(sm) == ValuesOf(sm.new) \cup ValuesOf(sm.modified) \cup ValuesOf(sm.deleted)

\* object i is in a bucket of the session
Staged(i) == \E m \in Models : i \in Bucketed(sms[m])

\* the transaction is Open: begun, neither committed nor rolled back
Open(t) == t <= ntx /\ tx[t].session /\ tx[t].pc = "none"

\* the models with a payload in the calls of a commit
TookPart(calls) ==
    UNION {{calls[n].data[k].meta : k \in DOMAIN calls[n].data} : n \in DOMAIN calls}

\* C1: in every SessionModel (SessionStructure included) no iid is a key of
\* two of the buckets _new, _modified, _deleted, and no object is stored in
\* two of them.
C1_BucketsDisjoint ==
    \A m \in Models :
        /\ KeysOf(sms[m].new) \cap KeysOf(sms[m].modified) = {}
        /\ KeysOf(sms[m].new) \cap KeysOf(sms[m].deleted) = {}
        /\ KeysOf(sms[m].modified) \cap KeysOf(sms[m].deleted) = {}
        /\ ValuesOf(sms[m].new) \cap ValuesOf(sms[m].modified) = {}
        /\ ValuesOf(sms[m].new) \cap ValuesOf(sms[m].deleted) = {}
        /\ ValuesOf(sms[m].modified) \cap ValuesOf(sms[m].deleted) = {}

\* C2: an Open transaction is the one bound to session.transaction; begin()
\* with a transaction bound fails with InvalidTransaction and leaves the
\* binding and every transaction as they were; begin() with none bound binds
\* a new Open transaction.
C2_BeginOneTransaction ==
    /\ [](\A t \in TxIds : Open(t) => transaction = t)
    /\ [][UserCall(Call1("begin", 0)) =>
            IF transaction # 0
            THEN err' = "InvalidTransaction" /\ transaction' = transaction /\ tx' = tx
            ELSE /\ err' = "none"
                 /\ transaction' = ntx + 1
                 /\ ntx' = ntx + 1
                 /\ tx'[transaction'].session
                 /\ tx'[transaction'].pc = "none"
                 /\ ~tx'[transaction'].finished]_vars

\* begin() was refused while a transaction was bound
C2_Witness == call.op = "begin" /\ err = "InvalidTransaction" /\ transaction # 0

\* C3: a transaction on which commit() ran stays executed for ever, and a
\* later commit() on it fails with InvalidTransaction, changing no
\* transaction (nothing is dispatched) and no bucket.
C3_CommitOnce ==
    [][\A t \in TxIds :
         tx[t].pc # "none" =>
            /\ ~tx'[t].session
            /\ tx'[t].pc # "none"
            /\ UserCall(Call1("tx_commit", t)) =>
                  /\ err' = "InvalidTransaction"
                  /\ tx' = tx
                  /\ sms' = sms
                  /\ transaction' = transaction]_vars

\* commit() was refused on a transaction whose responses are pending
C3_Witness ==
    \E t \in TxIds : call = Call1("tx_commit", t) /\ err = "InvalidTransaction"
                     /\ tx[t].pc = "await"

\* C4: while a transaction is Executing (responses pending) the session's
\* transaction is None.
C4_ExecutingIsDetached ==
    \A t \in TxIds : tx[t].pc = "await" => transaction = 0

\* C5: when a commit completes without error, every SessionModel that took
\* part has _new, _modified, _deleted, _delete_query and _queries empty, and
\* session.transaction is None.  (Stated for backends that stored every
\* object they were handed.)
C5_CommitEmptiesBuffers ==
    [][\A t \in TxIds :
         (/\ tx[t].pc # "done" /\ tx'[t].pc = "done"
          /\ \A k \in DOMAIN tx[t].outcome : tx[t].outcome[k].unstored = 0) =>
            /\ transaction' = 0
            /\ \A m \in TookPart(tx[t].calls) : sms'[m] = EmptySM]_vars

\* C6: a transaction whose commit has run to its end is finished.
C6_CommitFinishes ==
    \A t \in TxIds : tx[t].pc \in {"done", "raised"} => tx[t].finished

\* C7: rollback() on an Open transaction leaves session.transaction None,
\* no SessionModel in the session, the transaction detached and no call
\* dispatched.
C7_RollbackDetaches ==
    [][\A t \in TxIds :
         (Open(t) /\ UserCall(Call1("rollback", t))) =>
            /\ transaction' = 0
            /\ order' = <<>>
            /\ ~tx'[t].session
            /\ \A u \in TxIds : tx'[u].calls = tx[u].calls]_vars

\* C8: rollback() of the Open transaction leaves an object staged in the
\* session in no bucket and with session None.
C8_RollbackErasesStaging ==
    [][\A t \in TxIds, i \in Instances :
         (Open(t) /\ UserCall(Call1("rollback", t)) /\ Staged(i) /\ inst[i].session) =>
            (~Staged(i)' /\ ~inst'[i].session)]_vars

\* C9: a response with n >= 1 Exceptions among the per-instance results
\* makes _post_commit raise CommitException with failures = n and the
\* message of that count, and leaves the transaction finished.
C9_InstanceErrorsCounted ==
    \A t \in TxIds : \A k \in DOMAIN tx[t].outcome :
        LET o == tx[t].outcome[k] IN
        (o.instance_errors >= 1 /\ o.model_errors = 0) =>
            /\ o.raised.type = "CommitException"
            /\ o.raised.failures = o.instance_errors
            /\ o.raised.message = CommitMessage(o.instance_errors)
            /\ tx[t].finished

\* errors reported over the responses processed so far
RECURSIVE TotalErrors(_, _)
TotalErrors(outcome, n) ==
    IF n > Len(outcome) THEN 0
    ELSE outcome[n].model_errors + outcome[n].instance_errors + TotalErrors(outcome, n + 1)

\* C10: when two or more responses of one commit report errors, every
\* response is handed to _post_commit and the commit raises one
\* CommitException whose failures is the number of errors over all
\* responses.  (Stated for Exceptions standing in place of a model's results,
\* the errors _post_commit collects itself.)
C10_ErrorsRaisedOnce ==
    [][\A t \in TxIds :
         LET o == tx[t].outcome
             withErrors == {k \in DOMAIN o : o[k].model_errors > 0}
             raising == {k \in DOMAIN o : o[k].raised.type # "none"}
         IN (/\ tx[t].pc = "post" /\ tx'[t].pc \in {"done", "raised"}
             /\ Cardinality(withErrors) >= 2
             /\ \A k \in DOMAIN o : o[k].instance_errors = 0) =>
                /\ Len(o) = Len(tx[t].calls)
                /\ Cardinality(raising) = 1
                /\ \A k \in raising : /\ o[k].raised.type = "CommitException"
                                      /\ o[k].raised.failures = TotalErrors(o, 1)]_vars

\* transaction t was begun and committed by the last user call, a call of
\* op that returned, and no user call was made since
ImplicitBy(t, op) ==
    t <= ntx /\ tx[t].at = ops /\ call.op = op /\ err = "none" /\ ~tx[t].session

\* the objects of a sequence of objects
Elems(q) == {q[n] : n \in DOMAIN q}

\* C11: add(i) of a new object commits implicitly; when the backend reports
\* it stored under an id, the commit ends with the object persistent, its
\* primary key that id, the object in tx.saved of its model and
\* session.transaction None.  (Stated for objects of a SessionModel, whose
\* add rebuilds the state of the object.)
C11_ImplicitCommitRoundTrip ==
    [][\A t \in TxIds, i \in Instances, id \in 1..(MaxId + NInst) :
         (/\ tx[t].pc = "post" /\ tx'[t].pc \in {"done", "raised"}
          /\ model_type(ModelOf(i)) = "object"
          /\ ImplicitBy(t, "add") /\ call.arg = i
          /\ \E k \in DOMAIN tx[t].outcome : <<Token(i), id>> \in tx[t].outcome[k].stored) =>
            /\ inst'[i].persistent
            /\ inst'[i].pk = id
            /\ i \in Elems(tx'[t].saved[ModelOf(i)])
            /\ transaction' = 0]_vars

\* C12: add and delete reach a backend only through a commit.  With a
\* transaction Open on the session they leave every transaction as it was
\* (nothing is dispatched); with no transaction, add(modified=True) and
\* delete begin and commit exactly one transaction, add(modified=False) none.
C12_DispatchOnlyThroughCommit ==
    [][(ops' = ops + 1 /\ call'.op \in {"add", "delete", "delete_query"}) =>
          IF transaction # 0
          THEN Open(transaction) =>
                  (tx' = tx /\ ntx' = ntx /\ transaction' = transaction)
          ELSE IF err' = "none" /\ (call'.op # "add" \/ call'.modified)
          THEN /\ ntx' = ntx + 1
               /\ ~tx'[ntx'].session
               /\ tx'[ntx'].at = ops'
               /\ \A u \in TxIds \ {ntx'} : tx'[u] = tx[u]
          ELSE tx' = tx /\ ntx' = ntx]_vars

\* an object was staged by add or delete under an Open transaction
C12_Witness ==
    /\ call.op \in {"add", "delete"} /\ err = "none"
    /\ transaction # 0 /\ Open(transaction)
    /\ Staged(call.arg)

\* the payloads of model m among the calls of a commit
PayloadsOf(calls, m) ==
    UNION {{calls[n].data[k] : k \in {j \in DOMAIN calls[n].data : calls[n].data[j].meta = m}} :
           n \in DOMAIN calls}

\* C13: in the events of a commit every pre_delete and pre_commit signal
\* comes before the first execute_session; pre_delete is sent for a model
\* only if signal_delete is set and the model hands deletes to a backend,
\* pre_commit only if signal_commit is set and it hands dirty objects.
C13_PreSignalsBeforeDispatch ==
    \A t \in TxIds :
        LET ev == tx[t].events IN
        tx[t].pc = "await" =>
            /\ \A a \in DOMAIN ev, b \in DOMAIN ev :
                  (ev[a].name = "execute_session" /\ ev[b].name \in {"pre_delete", "pre_commit"})
                     => b < a
            /\ \A a \in DOMAIN ev :
                  /\ ev[a].name = "pre_delete" =>
                        /\ tx[t].signal_delete
                        /\ \E p \in PayloadsOf(tx[t].calls, ev[a].of) : p.deletes # <<>>
                  /\ ev[a].name = "pre_commit" =>
                        /\ tx[t].signal_commit
                        /\ \E p \in PayloadsOf(tx[t].calls, ev[a].of) : p.dirty # <<>>

\* a commit sent pre_delete for one model and pre_commit for another before
\* it called the backends
C13_Witness ==
    \E t \in TxIds :
        /\ tx[t].pc = "await"
        /\ \E a \in DOMAIN tx[t].events, b \in DOMAIN tx[t].events :
              /\ tx[t].events[a].name = "pre_delete"
              /\ tx[t].events[b].name = "pre_commit"
              /\ tx[t].events[a].of # tx[t].events[b].of
        /\ Len(tx[t].calls) = 2

\* C14: among the signals of one transaction no post_commit is sent before
\* a post_delete, whatever the models and responses they belong to.
C14_PostDeleteBeforePostCommit ==
    \A t \in TxIds :
        \A a \in DOMAIN tx[t].events, b \in DOMAIN tx[t].events :
            (tx[t].events[a].name = "post_commit" /\ tx[t].events[b].name = "post_delete")
               => b < a

\* a step in which commit() runs on transaction t with the buckets as they
\* are before the step
Commits(t) ==
    /\ ops' = ops + 1
    /\ call'.op \in {"tx_commit", "commit"}
    /\ tx[t].pc = "none" /\ tx'[t].pc # "none"

\* the model has a SessionModel in the session
InSession(m) == \E n \in DOMAIN order : order[n] = m

\* nothing to send for a SessionModel: no dirty object, no delete, no query
NothingToSend(m, sm) ==
    dirty(sm) = <<>> /\ get_delete_query(m, sm).ret = <<>> /\ sm.queries = <<>>

\* C15: every payload handed to a backend has dirty, deletes or queries
\* non-empty, and a SessionModel with nothing to send has no payload among
\* the calls of the commit, whether or not its manager has a read backend of
\* its own.
C15_NoEmptyPayload ==
    /\ [](\A t \in TxIds, m \in Models : \A p \in PayloadsOf(tx[t].calls, m) :
             p.dirty # <<>> \/ p.deletes # <<>> \/ p.queries # <<>>)
    /\ [][\A t \in TxIds, m \in Models :
            (Commits(t) /\ NothingToSend(m, sms[m])) =>
                PayloadsOf(tx'[t].calls, m) = {}]_vars

\* a commit called a backend while a SessionModel of the session, whose
\* manager reads from another backend, had nothing to send
C15_Witness ==
    \E t \in TxIds, m \in Models :
        /\ tx[t].pc = "await" /\ tx[t].calls # <<>>
        /\ tx[t].at = ops /\ call.op \in {"tx_commit", "commit"}
        /\ InSession(m) /\ read_backend(m) # backend(m)
        /\ sms[m] = EmptySM
        /\ PayloadsOf(tx[t].calls, m) = {}

\* the payloads of model m handed to backend be by the calls of a commit
SentTo(calls, be, m) ==
    IF \E n \in DOMAIN calls : calls[n].be = be
    THEN SelectSeq(calls[CHOOSE n \in DOMAIN calls : calls[n].be = be].data,
                   LAMBDA p : p.meta = m)
    ELSE <<>>

\* C16: commit hands a SessionModel's work to its manager's backends as
\* follows.  Read and write backend the same (or no read backend): one
\* payload (dirty, deletes, queries) to that backend.  Different: the write
\* backend gets (dirty, deletes, no queries) if there is any of the two, the
\* read backend gets (no dirty, no deletes, queries) if there is a query;
\* no other backend gets a payload of the model.
C16_ReadWriteSplit ==
    [][\A t \in TxIds, m \in Models :
         LET d == dirty(sms[m])
             deletes == get_delete_query(m, sms[m]).ret
             queries == sms[m].queries
             calls == tx'[t].calls
             be == backendOf[m].backend
             rbe == IF backendOf[m].read_backend = "None" THEN be
                    ELSE backendOf[m].read_backend
         IN (Commits(t) /\ InSession(m) /\ ~NothingToSend(m, sms[m])) =>
               /\ \A b \in Backends \ {be, rbe} : SentTo(calls, b, m) = <<>>
               /\ IF be = rbe
                  THEN SentTo(calls, be, m) =
                          << [meta |-> m, dirty |-> session_data(m, d, <<>>, <<>>, inst).dirty,
                              deletes |-> deletes, queries |-> queries] >>
                  ELSE /\ SentTo(calls, be, m) =
                            (IF d # <<>> \/ deletes # <<>>
                             THEN << [meta |-> m,
                                      dirty |-> session_data(m, d, <<>>, <<>>, inst).dirty,
                                      deletes |-> deletes, queries |-> <<>>] >>
                             ELSE <<>>)
                       /\ SentTo(calls, rbe, m) =
                            (IF queries # <<>>
                             THEN << [meta |-> m, dirty |-> <<>>, deletes |-> <<>>,
                                      queries |-> queries] >>
                             ELSE <<>>)]_vars

\* a commit split the work of one model: dirty objects to the write
\* backend, the query to a different read backend
C16_Witness ==
    \E t \in TxIds, m \in Models :
        /\ tx[t].pc = "await" /\ tx[t].at = ops /\ call.op \in {"tx_commit", "commit"}
        /\ read_backend(m) # backend(m)
        /\ SentTo(tx[t].calls, backend(m), m) # <<>>
        /\ SentTo(tx[t].calls, read_backend(m), m) # <<>>

\* C17: when _post_commit has handled a response, every object in tx.saved
\* is persistent, and every object the response put into tx.saved has a
\* result in it that is no error, not deleted and persistent.
C17_SavedArePersistent ==
    [][\A t \in TxIds :
         Len(tx'[t].outcome) = Len(tx[t].outcome) + 1 =>
            \A m \in Models : \A i \in Elems(tx'[t].saved[m]) :
                /\ inst'[i].persistent
                /\ tx'[t].saved[m] # tx[t].saved[m] =>
                      \E r \in tx'[t].outcome[Len(tx'[t].outcome)].stored :
                          r[1] = inst[i].iid /\ r[2] = inst'[i].pk]_vars

\* C18: when _post_commit has handled a response and left the transaction
\* finished, no id in tx.deleted of a model is the iid of an object in a
\* bucket of that model's SessionModel.
C18_DeletedLeaveBuckets ==
    [][\A t \in TxIds :
         (Len(tx'[t].outcome) = Len(tx[t].outcome) + 1 /\ tx'[t].finished) =>
            \A m \in Models : \A k \in Elems(tx'[t].deleted[m]) : ~InSM(sms'[m], k)]_vars

\* a finished transaction reports the id of an object that was staged in
\* the session when the response came
C18_Witness ==
    \E t \in TxIds, m \in Models, i \in Instances :
        /\ tx[t].pc = "post" /\ tx[t].finished
        /\ ModelOf(i) = m /\ inst[i].pk \in Elems(tx[t].deleted[m])
        /\ \E k \in DOMAIN tx[t].outcome : tx[t].outcome[k].stored # {}

\* C19: delete(q) of a query made by another session raises ValueError,
\* leaves every _delete_query and every transaction as they were; delete(q)
\* of a query of this session appends q to the _delete_query of its model,
\* from where the implicit commit, if there is one, takes it as the deletes
\* of the model's payload.
C19_ForeignQueryRejected ==
    [][/\ (ops' = ops + 1 /\ call'.op = "delete_foreign_query") =>
            /\ err' = "ValueError"
            /\ \A m \in Models : sms'[m].delete_query = sms[m].delete_query
            /\ tx' = tx /\ ntx' = ntx /\ transaction' = transaction
       /\ (ops' = ops + 1 /\ call'.op = "delete_query") =>
            /\ err' = "none"
            /\ \E m \in Models :
                  IF transaction # 0
                  THEN sms'[m].delete_query = Append(sms[m].delete_query, UserQuery(1))
                  ELSE \E p \in PayloadsOf(tx'[ntx'].calls, m) :
                          UserQuery(1) \in Elems(p.deletes)]_vars

\* a foreign query was refused while a transaction was open and an object
\* was staged
C19_Witness ==
    /\ call.op = "delete_foreign_query" /\ err = "ValueError"
    /\ transaction # 0 /\ Open(transaction)
    /\ \E i \in Instances : Staged(i)

\* C20: add(instance, modified=False) of a persistent object leaves _new,
\* _modified and _deleted of its SessionModel as they were, also when the
\* object is staged in _modified.
C20_UnmodifiedAddIsNoOp ==
    [][\A i \in Instances :
         (/\ ops' = ops + 1
          /\ call' = Call("add", i, FALSE, "None")
          /\ model_type(ModelOf(i)) = "object"
          /\ inst[i].persistent /\ ~inst[i].deleted) =>
            /\ sms'[ModelOf(i)].new = sms[ModelOf(i)].new
            /\ sms'[ModelOf(i)].modified = sms[ModelOf(i)].modified
            /\ sms'[ModelOf(i)].deleted = sms[ModelOf(i)].deleted]_vars

\* the commit of transaction t ends in this step, no user call made since
\* commit() was called
CommitEnds(t) ==
    /\ tx[t].pc \notin {"done", "raised"} /\ tx'[t].pc \in {"done", "raised"}
    /\ tx'[t].at = ops'

\* the objects in the dirty lists of the payloads of a commit
DirtyObjects(calls) ==
    UNION {UNION {{calls[n].data[k].dirty[j][2] : j \in DOMAIN calls[n].data[k].dirty} :
                    k \in DOMAIN calls[n].data} : n \in DOMAIN calls}

\* C21: add(x); delete(x); commit() in one transaction: x is in no dirty
\* list handed to a backend, and when the commit ends x is not in tx.saved
\* and is not persistent, for x new and for x persistent before.
C21_DeletionDominates ==
    [][\A t \in TxIds, x \in Instances :
         /\ (Commits(t) /\ tx'[t].dominated = x) => x \notin DirtyObjects(tx'[t].calls)
         /\ (CommitEnds(t) /\ tx'[t].dominated = x) =>
               /\ x \notin Elems(tx'[t].saved[ModelOf(x)])
               /\ ~inst'[x].persistent]_vars

\* every entry of the OrderedDict d is an object stored under its state.iid
KeyedByIid(d) == \A n \in DOMAIN d : inst[d[n][2]].iid = d[n][1]

\* C22: every object in _new, _modified or _deleted of a SessionModel is
\* stored under the key that is its state.iid.
C22_KeyIsIid ==
    \A m \in Models :
        KeyedByIid(sms[m].new) /\ KeyedByIid(sms[m].modified) /\ KeyedByIid(sms[m].deleted)

\* add(persistent=False) re-stated a row that has a primary key as new: it
\* is in _new under its token
C22_Witness ==
    /\ call.op = "add" /\ call.persistent = "False" /\ err = "none"
    /\ call.arg \in Instances
    /\ inst[call.arg].pk # 0
    /\ model_type(ModelOf(call.arg)) = "object"
    /\ Get(sms[ModelOf(call.arg)].new, Token(call.arg)) = call.arg

\* C23: every object in _deleted of a SessionModel or SessionStructure has
\* state.deleted and state.persistent true; delete(i) of an object that is
\* not persistent leaves it in no bucket and with session None.
C23_DeletedArePersistent ==
    /\ [](\A m \in Models : \A i \in ValuesOf(sms[m].deleted) :
             inst[i].deleted /\ inst[i].persistent)
    /\ [][\A i \in Instances :
            (UserCall(Call1("delete", i)) /\ ~inst[i].persistent /\ err' = "none") =>
                (~Staged(i)' /\ ~inst'[i].session)]_vars

\* C24: SessionModel.add of an object whose state is deleted raises
\* ValueError and leaves _new, _modified and _deleted as they were (the
\* object stays in _deleted if it was there); nothing is committed.
C24_AddDeletedRejected ==
    [][\A i \in Instances :
         (/\ ops' = ops + 1 /\ call'.op = "add" /\ call'.arg = i
          /\ model_type(ModelOf(i)) = "object"
          /\ inst[i].deleted) =>
            /\ err' = "ValueError"
            /\ sms' = sms
            /\ tx' = tx /\ transaction' = transaction]_vars

\* add was refused for a deleted row that is staged in _deleted
C24_Witness ==
    /\ call.op = "add" /\ err = "ValueError"
    /\ call.arg \in Instances
    /\ model_type(ModelOf(call.arg)) = "object"
    /\ inst[call.arg].deleted
    /\ call.arg \in ValuesOf(sms[ModelOf(call.arg)].deleted)

\* what the claim says get_delete_query returns for the buckets sm: the
\* accumulated queries, then for an object model one query over the deleted
\* objects
UnionOfDeletes(m, sm) ==
    sm.delete_query
    \o (IF sm.deleted = <<>> THEN <<>>
        ELSE IF model_type(m) = "object" THEN << IdsQuery(itervalues(sm.deleted)) >>
        ELSE [n \in DOMAIN sm.deleted |-> InstQuery(sm.deleted[n][2])])

\* C25: when commit() runs get_delete_query on a SessionModel, _deleted and
\* _delete_query are empty afterwards; the model's payload carries no
\* deletes exactly when both were empty before, otherwise the union of the
\* accumulated queries (with one query over the deleted objects for an
\* object model); a second call on the buckets left behind returns nothing.
C25_DeleteQueryConsumed ==
    [][\A t \in TxIds, m \in Models :
         (Commits(t) /\ InSession(m)) =>
            /\ sms'[m].deleted = <<>>
            /\ sms'[m].delete_query = <<>>
            /\ IF sms[m].deleted = <<>> /\ sms[m].delete_query = <<>>
               THEN \A p \in PayloadsOf(tx'[t].calls, m) : p.deletes = <<>>
               ELSE /\ Cardinality(PayloadsOf(tx'[t].calls, m)) = 1
                    /\ \A p \in PayloadsOf(tx'[t].calls, m) :
                          p.deletes = UnionOfDeletes(m, sms[m])
            /\ get_delete_query(m, sms'[m]).ret = <<>>]_vars

\* a commit handed a backend the union of a staged delete query and the
\* query over a deleted row
C25_Witness ==
    \E t \in TxIds, m \in Models :
        /\ tx[t].pc = "await" /\ tx[t].at = ops /\ call.op = "tx_commit"
        /\ model_type(m) = "object"
        /\ sms[m].deleted = <<>> /\ sms[m].delete_query = <<>>
        /\ \E p \in PayloadsOf(tx[t].calls, m) :
              /\ Len(p.deletes) = 2
              /\ p.deletes[1].kind = "q" /\ p.deletes[2].kind = "ids"

\* _post_commit handles a response of transaction t in this step
Handles(t) == Len(tx'[t].outcome) = Len(tx[t].outcome) + 1

\* element n of a response is the first whose results reach post_commit
FirstProcessed(response, n) ==
    /\ n \in DOMAIN response
    /\ response[n].kind = "res" /\ response[n].results # <<>>
    /\ \A k \in 1..(n - 1) : response[k].kind = "res" /\ response[k].results = <<>>

\* C26 as claimed: post_commit raises InvalidTransaction for a result that
\* is no error and whose iid is in none of the buckets when it is processed,
\* be it a save or a delete.  (Stated for the first result post_commit is
\* handed, processed with the buckets as the step finds them.)
C26_AbsentIidRejected ==
    [][\A t \in TxIds :
         Handles(t) =>
            LET o == tx'[t].outcome[Len(tx'[t].outcome)] IN
            \A n \in DOMAIN o.response :
                (/\ FirstProcessed(o.response, n)
                 /\ o.response[n].results[1].kind = "result"
                 /\ ~InSM(sms[o.response[n].meta], o.response[n].results[1].iid)) =>
                    o.raised.type = "InvalidTransaction"]_vars

\* C26 amended: post_commit raises InvalidTransaction for a result that is
\* no error, not deleted, and whose iid is in none of the buckets when it is
\* processed; results that are all deleted never raise InvalidTransaction,
\* and when their iids are in no bucket nothing is raised and their ids
\* become tx.deleted of the model.
C26_AbsentSaveRejected ==
    [][\A t \in TxIds :
         Handles(t) =>
            LET o == tx'[t].outcome[Len(tx'[t].outcome)] IN
            \A n \in DOMAIN o.response :
                LET rs == o.response[n].results
                    m == o.response[n].meta
                IN FirstProcessed(o.response, n) =>
                      /\ (/\ rs[1].kind = "result" /\ ~rs[1].deleted
                          /\ ~InSM(sms[m], rs[1].iid)) =>
                             o.raised.type = "InvalidTransaction"
                      /\ (/\ Len(o.response) = 1
                          /\ \A k \in DOMAIN rs : rs[k].kind = "result" /\ rs[k].deleted) =>
                             /\ o.raised.type # "InvalidTransaction"
                             /\ (\A k \in DOMAIN rs : ~InSM(sms[m], rs[k].iid)) =>
                                   /\ o.raised.type = "none"
                                   /\ tx'[t].deleted[m] = [k \in DOMAIN rs |-> rs[k].id]]_vars

\* the first result of a response reported an object as saved that had left
\* the buckets while the commit awaited, and InvalidTransaction was raised
C26_Witness ==
    \E t \in TxIds : \E k \in DOMAIN tx[t].outcome :
        LET o == tx[t].outcome[k] IN
        /\ o.raised.type = "InvalidTransaction"
        /\ \E n \in DOMAIN o.response :
              /\ FirstProcessed(o.response, n)
              /\ o.response[n].results[1].kind = "result"
              /\ ~o.response[n].results[1].deleted

\* C27: a transaction is finished only when _post_commit has handled every
\* response of its commit: it is not finished while it awaits the backends
\* nor while a response is still to be handled.
C27_FinishedAfterAllResponses ==
    \A t \in TxIds :
        tx[t].finished =>
            /\ tx[t].pc \notin {"none", "await"}
            /\ tx[t].pc = "post" => tx[t].next > Len(tx[t].calls)

\* the payloads among the pairs a SessionModel yields that go to backend be
PayloadsFor(pairs, be) ==
    LET mine == SelectSeq(pairs, LAMBDA p : p.be = be)
    IN [n \in DOMAIN mine |-> mine[n].data]

\* C28: commit() makes one execute_session call for each backend that a
\* SessionModel yields a payload for, none for any other, and the argument of
\* the call is the list of the payloads yielded for that backend, in the
\* order of the SessionModels (so every payload is handed over once); the
\* dirty list of a payload is _new followed by _modified, each in insertion
\* order.
C28_OneCallPerBackend ==
    /\ [][\A t \in TxIds :
            Commits(t) =>
               LET pairs == all_backends_data(order, sms, inst, 1)
                   calls == tx'[t].calls
               IN /\ \A a \in DOMAIN calls, b \in DOMAIN calls :
                        a # b => calls[a].be # calls[b].be
                  /\ {calls[a].be : a \in DOMAIN calls} = {pairs[k].be : k \in DOMAIN pairs}
                  /\ \A a \in DOMAIN calls : calls[a].data = PayloadsFor(pairs, calls[a].be)]_vars
    /\ [][\A t \in TxIds, m \in Models :
            (tx[t].pc = "none" /\ tx'[t].pc = "await") =>
               \A p \in PayloadsOf(tx'[t].calls, m) :
                  p.dirty # <<>> =>
                     [j \in DOMAIN p.dirty |-> p.dirty[j][2]]
                        = itervalues(sms'[m].new) \o itervalues(sms'[m].modified)]_vars

\* a commit handed one backend two payloads in one call: the queries of a
\* model that reads from it and the dirty objects of a model that writes to it
C28_Witness ==
    \E t \in TxIds : \E n \in DOMAIN tx[t].calls :
        /\ tx[t].pc = "await" /\ tx[t].at = ops /\ call.op \in {"tx_commit", "commit"}
        /\ Len(tx[t].calls[n].data) = 2
        /\ tx[t].calls[n].data[1].meta # tx[t].calls[n].data[2].meta

\* the entries of an OrderedDict other than the one of key k
Others(d, k) == SelectSeq(d, LAMBDA e : e[1] # k)

\* C29: SessionModel.expunge(i) of an object in no bucket raises nothing and
\* leaves the buckets as they were; of a staged object it removes the
\* object from its bucket, sets its session to None and leaves every other
\* entry in place.  (Session.expunge calls it when the SessionModel of the
\* object's model is not empty.)
C29_ExpungeAbsentIsNoOp ==
    [][\A i \in DOMAIN inst :
         LET m == ModelOf(i)
             k == inst[i].iid
         IN (UserCall(Call1("expunge", i)) /\ InSession(m) /\ LenSM(sms[m]) > 0) =>
               /\ err' = "none"
               /\ IF ~InSM(sms[m], k)
                  THEN sms' = sms /\ inst' = inst
                  ELSE /\ sms'[m].new = Others(sms[m].new, k)
                       /\ sms'[m].modified = Others(sms[m].modified, k)
                       /\ sms'[m].deleted = Others(sms[m].deleted, k)
                       /\ \A j \in DOMAIN inst :
                             (j \in Bucketed(sms[m]) /\ inst[j].iid = k) => ~inst'[j].session
                       /\ \A n \in Models \ {m} : sms'[n] = sms[n]]_vars

\* the commit of transaction t raised CommitException and nothing else
RaisedCommitException(rec) ==
    /\ \E k \in DOMAIN rec.outcome : rec.outcome[k].raised.type = "CommitException"
    /\ \A k \in DOMAIN rec.outcome : rec.outcome[k].raised.type \in {"none", "CommitException"}

\* C30: when a commit ends with CommitException, by commit() or by leaving
\* a with block, session.transaction is None, and a begin() that follows
\* does not fail.
C30_ErrorCommitDetaches ==
    [][\A t \in TxIds :
         /\ (/\ tx[t].pc = "post" /\ tx'[t].pc = "raised"
             /\ RaisedCommitException(tx[t])) => transaction' = 0
         /\ (/\ tx[t].pc = "raised" /\ tx[t].at = ops
             /\ RaisedCommitException(tx[t])
             /\ UserCall(Call1("begin", 0))) => err' = "none"]_vars

\* the objects stored under iid k in the buckets of a SessionModel
StoredUnder(sm, k) ==
    UNION {{d[n][2] : n \in {j \in DOMAIN d : d[j][1] = k}} :
             d \in {sm.new, sm.modified, sm.deleted}}

\* C31: in every SessionModel and SessionStructure an iid is the key of at
\* most one object over the three buckets, so that pop of any iid does not
\* raise 'Critical error: iid is duplicated'.
C31_PopNeverRaises ==
    \A m \in Models :
        \A k \in KeysOf(sms[m].new) \cup KeysOf(sms[m].modified) \cup KeysOf(sms[m].deleted) :
            /\ Cardinality(StoredUnder(sms[m], k)) <= 1
            /\ pop(sms[m], k).err = "none"

====
